---------------------------- MODULE Spec2Model ----------------------------
(***************************************************************************)
(* A model of the AES-GCM session engine of wolfEngine (src/src/aes_gcm.c):*)
(* the per-context object we_AesGcm and its three entry points             *)
(* we_aes_gcm_init, we_aes_gcm_cipher (with we_aes_gcm_tls_cipher) and     *)
(* we_aes_gcm_ctrl, driven by a caller that may issue any call at any time.*)
(*                                                                         *)
(* Buffers are sequences of bytes (0..255).  The C index i of a buffer is  *)
(* the index i + 1 here.  A NULL byte pointer is the empty sequence: the   *)
(* OpenSSL allocator never returns a non-NULL block of size 0.             *)
(*                                                                         *)
(* The wolfCrypt calls (wc_AesGcm...) are outside the repository.  They    *)
(* are modelled by their contract: the object keeps a nonce register       *)
(* (aes.reg, aes.nonceSz), wc_AesGcmEncrypt_ex encrypts under that         *)
(* register, reports it through its iv argument and then advances it,      *)
(* wc_AesGcmDecrypt takes the nonce it is given and checks the tag.  The   *)
(* cipher itself is a toy keystream and a toy checksum tag: deterministic, *)
(* invertible, and every tag byte changes when one bit of the key, nonce,  *)
(* AAD or ciphertext changes.                                              *)
(***************************************************************************)
EXTENDS Integers, Sequences, FiniteSets, TLC

(***************************************************************************)
(* Program constants.                                                      *)
(***************************************************************************)
GCM_NONCE_MAX_SZ == 16
GCM_NONCE_MID_SZ == 12
AES_BLOCK_SIZE == 16
EVP_GCM_TLS_FIXED_IV_LEN == 4
EVP_GCM_TLS_EXPLICIT_IV_LEN == 8
EVP_GCM_TLS_TAG_LEN == 16
EVP_AEAD_TLS1_AAD_LEN == 13

(***************************************************************************)
(* Bounds of the model.                                                    *)
(***************************************************************************)
\* Calls made on one session before the caller stops.
MaxCalls == 3

(***************************************************************************)
(* Bytes and buffers.                                                      *)
(***************************************************************************)
Byte == 0..255

NULL == <<>>

\* n bytes of value b.
Fill(n, b) == [i \in 1..n |-> b]

\* The n bytes of buf starting at C offset off.
Bytes(buf, off, n) == [i \in 1..n |-> buf[off + i]]

\* memcpy(buf + off, src, n): the first n bytes of src over buf at offset off.
MemCpy(buf, off, src, n) ==
    [i \in 1..Len(buf) |-> IF i > off /\ i <= off + n THEN src[i - off] ELSE buf[i]]

RECURSIVE SumSeq(_)
SumSeq(s) == IF s = <<>> THEN 0 ELSE (s[1] + SumSeq(Tail(s))) % 256

\* One bit of a byte flipped (bit 0 is the least significant).
RECURSIVE Pow2(_)
Pow2(b) == IF b = 0 THEN 1 ELSE 2 * Pow2(b - 1)

FlipBit(x, b) == IF (x \div Pow2(b)) % 2 = 0 THEN x + Pow2(b) ELSE x - Pow2(b)

\* Buffer s with bit b of its byte at C offset off flipped.
FlipAt(s, off, b) == [i \in 1..Len(s) |-> IF i = off + 1 THEN FlipBit(s[i], b) ELSE s[i]]

(***************************************************************************)
(* The wolfCrypt AES-GCM object and calls (external; by contract).         *)
(***************************************************************************)
\* Aes after the zeroing allocation of the cipher data: no key, register 0.
AesZero == [key |-> 0, reg |-> Fill(AES_BLOCK_SIZE, 0), nonceSz |-> 0]

\* The keystream offset of a (key, nonce) pair.
Mix(key, nonce) == (7 * key + SumSeq(nonce) + Len(nonce)) % 256

GcmCrypt(key, nonce, pt) ==
    [i \in 1..Len(pt) |-> (pt[i] + Mix(key, nonce) + i) % 256]

GcmUncrypt(key, nonce, ct) ==
    [i \in 1..Len(ct) |-> (ct[i] + 512 - Mix(key, nonce) - i) % 256]

\* The 16-byte tag over (key, nonce, AAD, ciphertext).
GcmTag(key, nonce, authIn, ct) ==
    [i \in 1..AES_BLOCK_SIZE |->
        (13 * i + 3 * key + SumSeq(nonce) + 5 * SumSeq(authIn) + 7 * SumSeq(ct)
           + 11 * Len(authIn) + 17 * Len(ct) + 19 * Len(nonce)) % 256]

\* The register as a big-endian counter over its first n bytes, plus one.
RECURSIVE IncCtr(_, _)
IncCtr(reg, n) ==
    IF n = 0 THEN reg
    ELSE IF reg[n] = 255 THEN IncCtr([reg EXCEPT ![n] = 0], n - 1)
    ELSE [reg EXCEPT ![n] = reg[n] + 1]

\* The nonce lengths wolfCrypt accepts for its register: 8, 12 and 16 bytes.
NonceSzOk(sz) == sz \in {8, GCM_NONCE_MID_SZ, GCM_NONCE_MAX_SZ}

\* wc_AesGcmSetKey: the key schedule is replaced and the register zeroed.
wc_AesGcmSetKey(w, key, rc) ==
    IF rc # 0 THEN [rc |-> rc, aes |-> w]
    ELSE [rc |-> 0, aes |-> [w EXCEPT !.key = key, !.reg = Fill(AES_BLOCK_SIZE, 0)]]

\* wc_AesGcmSetExtIV: a caller's nonce of 8, 12 or 16 bytes into the register.
wc_AesGcmSetExtIV(w, iv, ivSz) ==
    IF ~NonceSzOk(ivSz) THEN [rc |-> -173, aes |-> w]
    ELSE [rc |-> 0,
          aes |-> [w EXCEPT !.reg = MemCpy(w.reg, 0, iv, ivSz), !.nonceSz = ivSz]]

\* wc_AesGcmSetIV: the fixed part then random bytes rnd into the register.
\* rngRc # 0 is a failure of the random source after the fixed part was copied.
wc_AesGcmSetIV(w, ivSz, ivFixed, ivFixedSz, rnd, rngRc) ==
    IF ~NonceSzOk(ivSz)
       \/ (ivFixed = NULL /\ ivFixedSz # 0)
       \/ (ivFixed # NULL /\ ivFixedSz # EVP_GCM_TLS_FIXED_IV_LEN)
    THEN [rc |-> -173, aes |-> w]
    ELSE LET fixed == MemCpy(w.reg, 0, ivFixed, ivFixedSz)
         IN  IF rngRc # 0 THEN [rc |-> rngRc, aes |-> [w EXCEPT !.reg = fixed]]
             ELSE [rc |-> 0,
                   aes |-> [w EXCEPT
                              !.reg = MemCpy(fixed, ivFixedSz, rnd, ivSz - ivFixedSz),
                              !.nonceSz = ivSz]]

\* wc_AesGcmEncrypt_ex: encrypts under the register, which must have the
\* length the caller names; ivOut receives the nonce used; the register is
\* advanced on success.
wc_AesGcmEncrypt_ex(w, in, ivOut, ivOutSz, authTagSz, aad, aadSz) ==
    IF ivOutSz # w.nonceSz \/ ivOutSz = 0 \/ authTagSz > AES_BLOCK_SIZE
       \/ (aad = NULL /\ aadSz # 0)
    THEN [rc |-> -173, aes |-> w, out |-> <<>>, ivOut |-> ivOut, tag |-> <<>>,
          nonce |-> <<>>]
    ELSE LET nonce == Bytes(w.reg, 0, ivOutSz)
             ct == GcmCrypt(w.key, nonce, in)
             authIn == Bytes(aad, 0, aadSz)
         IN  [rc |-> 0,
              aes |-> [w EXCEPT !.reg = IncCtr(w.reg, ivOutSz)],
              out |-> ct,
              ivOut |-> MemCpy(ivOut, 0, w.reg, ivOutSz),
              tag |-> Bytes(GcmTag(w.key, nonce, authIn, ct), 0, authTagSz),
              nonce |-> nonce]

\* wc_AesGcmDecrypt: checks the first authTagSz tag bytes over the nonce it is
\* given, and releases the plaintext only when they match.  The register is
\* not touched.
wc_AesGcmDecrypt(w, in, iv, ivSz, authTag, authTagSz, authIn) ==
    IF ivSz = 0 \/ authTagSz = 0 \/ authTagSz > AES_BLOCK_SIZE
    THEN [rc |-> -173, out |-> <<>>]
    ELSE LET nonce == Bytes(iv, 0, ivSz)
         IN  IF Bytes(GcmTag(w.key, nonce, authIn, in), 0, authTagSz)
                  # Bytes(authTag, 0, authTagSz)
             THEN [rc |-> -180, out |-> <<>>]
             ELSE [rc |-> 0, out |-> GcmUncrypt(w.key, nonce, in)]


(***************************************************************************)
(* The session object we_AesGcm.                                           *)
(***************************************************************************)
\* The cipher data as the host allocates it: all zero.
AesGcmZero ==
    [aes |-> AesZero,
     iv |-> Fill(GCM_NONCE_MAX_SZ, 0), ivLen |-> 0, ivSet |-> 0,
     tag |-> Fill(AES_BLOCK_SIZE, 0), tagLen |-> 0,
     aad |-> NULL, aadLen |-> 0,
     init |-> 0, enc |-> 0, tls |-> 0]

\* What a call hands back: the session after it, its return value, the bytes
\* it wrote through its output pointer, and the wolfCrypt cipher call it made
\* (fn "none" when it made none; rc its result; nonce and authIn what the
\* cipher ran under).  fault: the call accessed memory outside its buffers.
Result(a, ret, out) ==
    [aes |-> a, ret |-> ret, out |-> out, fn |-> "none", rc |-> 0,
     nonce |-> <<>>, authIn |-> <<>>, fault |-> FALSE]

Fault(a) == [Result(a, 0, <<>>) EXCEPT !.fault = TRUE]

\* The AAD the cipher reads: aadLen bytes at aad (nothing through a NULL aad).
AuthIn(a) == IF a.aad = NULL THEN <<>> ELSE Bytes(a.aad, 0, a.aadLen)

\* DisposeAad without the reset of aadLen (line 299 left out).
DisposeAad_KeepLen(a) == [a EXCEPT !.aad = NULL]

\* The disposal that frees the block but keeps the pointer to it.
DisposeAad_KeepBlock(a) == [a EXCEPT !.aadLen = 0]

\* free(aad); aad = NULL; aadLen = 0.
DisposeAad(a) == [a EXCEPT !.aad = NULL, !.aadLen = 0]

(***************************************************************************)
(* we_aes_gcm_init                                                         *)
(***************************************************************************)
\* we_aes_gcm_init that, when it does not enter the block of lines 94-108,
\* still resets the field named by field.
InitResetting(a, key, iv, enc, rcKey, field) ==
    LET a1 == IF (key = 0 /\ iv = NULL) \/ a.init = 0
              THEN [a EXCEPT !.ivLen = 0, !.ivSet = 0, !.tagLen = 0,
                             !.aad = NULL, !.aadLen = 0, !.enc = enc,
                             !.init = 1, !.tls = 0]
              ELSE CASE field = "tagLen" -> [a EXCEPT !.tagLen = 0]
                     [] field = "enc" -> [a EXCEPT !.enc = enc]
                     [] field = "tls" -> [a EXCEPT !.tls = 0]
                     [] field = "ivSet" -> [a EXCEPT !.ivSet = 0]
        k  == IF key # 0 THEN wc_AesGcmSetKey(a1.aes, key, rcKey)
              ELSE [rc |-> 0, aes |-> a1.aes]
        a2 == [a1 EXCEPT !.aes = k.aes]
        ret == IF k.rc # 0 THEN 0 ELSE 1
        a3 == IF ret = 1 /\ iv # NULL
              THEN [a2 EXCEPT !.ivLen = GCM_NONCE_MID_SZ,
                              !.iv = MemCpy(a2.iv, 0, iv, GCM_NONCE_MID_SZ)]
              ELSE a2
    IN  Result(a3, ret, <<>>)

\* we_aes_gcm_init that clears the tag length on every call.
we_aes_gcm_init_ClearTag(a, key, iv, enc, rcKey) ==
    InitResetting(a, key, iv, enc, rcKey, "tagLen")

\* we_aes_gcm_init that takes the direction on every call.
we_aes_gcm_init_SetEnc(a, key, iv, enc, rcKey) ==
    InitResetting(a, key, iv, enc, rcKey, "enc")

\* we_aes_gcm_init that leaves TLS mode on every call.
we_aes_gcm_init_ClearTls(a, key, iv, enc, rcKey) ==
    InitResetting(a, key, iv, enc, rcKey, "tls")

\* we_aes_gcm_init that copies an IV of the length the session has
\* configured, and 12 bytes only where none is configured.
we_aes_gcm_init_IvOfIvLen(a, key, iv, enc, rcKey) ==
    LET a1 == IF (key = 0 /\ iv = NULL) \/ a.init = 0
              THEN [a EXCEPT !.ivLen = 0, !.ivSet = 0, !.tagLen = 0,
                             !.aad = NULL, !.aadLen = 0, !.enc = enc,
                             !.init = 1, !.tls = 0]
              ELSE a
        k  == IF key # 0 THEN wc_AesGcmSetKey(a1.aes, key, rcKey)
              ELSE [rc |-> 0, aes |-> a1.aes]
        a2 == [a1 EXCEPT !.aes = k.aes]
        ret == IF k.rc # 0 THEN 0 ELSE 1
        n  == IF a2.ivLen = 0 THEN GCM_NONCE_MID_SZ ELSE a2.ivLen
        a3 == IF ret = 1 /\ iv # NULL
              THEN [a2 EXCEPT !.ivLen = n, !.iv = MemCpy(a2.iv, 0, iv, n)]
              ELSE a2
    IN  Result(a3, ret, <<>>)

\* we_aes_gcm_init that forgets on every call that an IV was committed.
we_aes_gcm_init_ClearIvSet(a, key, iv, enc, rcKey) ==
    InitResetting(a, key, iv, enc, rcKey, "ivSet")

\* key = 0 is a NULL key, iv = NULL a NULL iv; rcKey is wc_AesGcmSetKey's result.
we_aes_gcm_init(a, key, iv, enc, rcKey) ==
    LET a1 == IF (key = 0 /\ iv = NULL) \/ a.init = 0
              THEN [a EXCEPT !.ivLen = 0, !.ivSet = 0, !.tagLen = 0,
                             !.aad = NULL, !.aadLen = 0, !.enc = enc,
                             !.init = 1, !.tls = 0]
              ELSE a
        k  == IF key # 0 THEN wc_AesGcmSetKey(a1.aes, key, rcKey)
              ELSE [rc |-> 0, aes |-> a1.aes]
        a2 == [a1 EXCEPT !.aes = k.aes]
        ret == IF k.rc # 0 THEN 0 ELSE 1
        a3 == IF ret = 1 /\ iv # NULL
              THEN [a2 EXCEPT !.ivLen = GCM_NONCE_MID_SZ,
                              !.iv = MemCpy(a2.iv, 0, iv, GCM_NONCE_MID_SZ)]
              ELSE a2
    IN  Result(a3, ret, <<>>)


(***************************************************************************)
(* we_aes_gcm_tls_cipher                                                   *)
(***************************************************************************)
\* The record is the input buffer in: explicit IV, payload, tag.  outNull: the
\* output pointer is NULL.  v3: the build is against OpenSSL 3.0 or later.
\* A record shorter than explicit IV plus tag makes the 32-bit payload length
\* wrap and the cipher run off the buffers; so does a write through a NULL
\* output pointer, and a read of aadLen > 0 bytes through a NULL aad.
we_aes_gcm_tls_cipher(a, outNull, in, v3) ==
    LET len == Len(in)
        bodyLen == len - EVP_GCM_TLS_EXPLICIT_IV_LEN - EVP_GCM_TLS_TAG_LEN
        body == Bytes(in, EVP_GCM_TLS_EXPLICIT_IV_LEN, bodyLen)
    IN
    IF len # 0 /\ (bodyLen < 0 \/ (outNull /\ (a.enc = 1 \/ bodyLen > 0)))
    THEN Fault(a)
    ELSE IF a.enc = 1 THEN
        IF len = 0 THEN Result(DisposeAad(a), 0, <<>>)
        ELSE
            LET eiv == Bytes(a.iv, EVP_GCM_TLS_FIXED_IV_LEN, EVP_GCM_TLS_EXPLICIT_IV_LEN)
                e == wc_AesGcmEncrypt_ex(a.aes, body, a.iv, a.ivLen,
                                         EVP_GCM_TLS_TAG_LEN, a.aad, a.aadLen)
                a1 == [a EXCEPT !.aes = e.aes, !.iv = e.ivOut]
            IN  [aes |-> DisposeAad(a1),
                 ret |-> IF e.rc # 0 THEN 0 ELSE len,
                 out |-> IF e.rc # 0 THEN eiv ELSE eiv \o e.out \o e.tag,
                 fn |-> "encrypt", rc |-> e.rc, nonce |-> e.nonce,
                 authIn |-> AuthIn(a), fault |-> FALSE]
    ELSE
        \* (int)decLen: the 32-bit difference read back as a signed int.
        IF len = 0 THEN Result(DisposeAad(a), IF v3 THEN 0 ELSE bodyLen, <<>>)
        ELSE IF a.aad = NULL /\ a.aadLen # 0 /\ a.ivLen # 0 THEN Fault(a)
        ELSE
            LET iv1 == MemCpy(a.iv, EVP_GCM_TLS_FIXED_IV_LEN, in,
                              EVP_GCM_TLS_EXPLICIT_IV_LEN)
                d == wc_AesGcmDecrypt(a.aes, body, iv1, a.ivLen,
                                      Bytes(in, len - EVP_GCM_TLS_TAG_LEN,
                                            EVP_GCM_TLS_TAG_LEN),
                                      EVP_GCM_TLS_TAG_LEN, AuthIn(a))
                a1 == [a EXCEPT !.iv = iv1]
            IN  [aes |-> DisposeAad(a1),
                 ret |-> IF d.rc # 0 THEN 0 ELSE IF v3 THEN len ELSE bodyLen,
                 out |-> d.out,
                 fn |-> "decrypt", rc |-> d.rc, nonce |-> Bytes(iv1, 0, a.ivLen),
                 authIn |-> AuthIn(a), fault |-> FALSE]

(***************************************************************************)
(* we_aes_gcm_cipher                                                       *)
(***************************************************************************)
\* AadAppend with the copy made to the start of the block (aad + 0 at line 247).
AadAppend_AtStart(a, in, allocOk, junk) ==
    LET len == Len(in)
        size == a.aadLen + len
    IN  IF size = 0 \/ ~allocOk THEN Result(a, 0, <<>>)
        ELSE LET p == [i \in 1..size |-> IF i <= Len(a.aad) THEN a.aad[i] ELSE junk]
             IN  Result([a EXCEPT !.aad = MemCpy(p, 0, in, len),
                                  !.aadLen = a.aadLen + len], 0, <<>>)

\* AadAppend that counts the input in aadLen although the block did not grow.
AadAppend_LenOnFail(a, in, allocOk, junk) ==
    LET len == Len(in)
        size == a.aadLen + len
    IN  IF size = 0 THEN Result(a, 0, <<>>)
        ELSE IF ~allocOk THEN Result([a EXCEPT !.aadLen = size], 0, <<>>)
        ELSE LET p == [i \in 1..size |-> IF i <= Len(a.aad) THEN a.aad[i] ELSE junk]
             IN  Result([a EXCEPT !.aad = MemCpy(p, a.aadLen, in, len),
                                  !.aadLen = a.aadLen + len], 0, <<>>)

\* OPENSSL_realloc(aad, aadLen + len) then the append.  allocOk: the allocator
\* has memory.  A request of 0 bytes yields NULL (it is made only with aad
\* NULL: aadLen = 0 with a block at aad is never reached).  junk: the value of
\* bytes of the new block that nothing has written.
AadAppend(a, in, allocOk, junk) ==
    LET len == Len(in)
        size == a.aadLen + len
    IN  IF size = 0 \/ ~allocOk THEN Result(a, 0, <<>>)
        ELSE LET p == [i \in 1..size |-> IF i <= Len(a.aad) THEN a.aad[i] ELSE junk]
             IN  Result([a EXCEPT !.aad = MemCpy(p, a.aadLen, in, len),
                                  !.aadLen = a.aadLen + len], 0, <<>>)

\* CipherEncrypt without the caching of the register in iv (line 279 left out).
CipherEncrypt_NoCache(a, in) ==
    LET len == Len(in)
        x  == IF a.ivSet = 0 THEN wc_AesGcmSetExtIV(a.aes, a.iv, a.ivLen)
              ELSE [rc |-> 0, aes |-> a.aes]
        a1 == [a EXCEPT !.aes = x.aes]
    IN  IF x.rc # 0
        THEN [aes |-> DisposeAad(a1), ret |-> len, out |-> <<>>,
              fn |-> "setextiv", rc |-> x.rc, nonce |-> <<>>, authIn |-> <<>>,
              fault |-> FALSE]
        ELSE LET e == wc_AesGcmEncrypt_ex(a1.aes, in, a1.iv, a1.ivLen,
                                          EVP_GCM_TLS_TAG_LEN, a1.aad, a1.aadLen)
                 a2 == [a1 EXCEPT !.tagLen = EVP_GCM_TLS_TAG_LEN, !.aes = e.aes,
                                  !.iv = e.ivOut,
                                  !.tag = IF e.rc = 0 THEN e.tag ELSE a1.tag]
             IN  [aes |-> DisposeAad(a2), ret |-> len, out |-> e.out,
                  fn |-> "encrypt", rc |-> e.rc, nonce |-> e.nonce,
                  authIn |-> AuthIn(a), fault |-> FALSE]

\* The one-shot encryption of in (len > 0).
CipherEncrypt(a, in) ==
    LET len == Len(in)
        x  == IF a.ivSet = 0 THEN wc_AesGcmSetExtIV(a.aes, a.iv, a.ivLen)
              ELSE [rc |-> 0, aes |-> a.aes]
        a1 == [a EXCEPT !.aes = x.aes]
    IN  IF x.rc # 0
        THEN [aes |-> DisposeAad(a1), ret |-> len, out |-> <<>>,
              fn |-> "setextiv", rc |-> x.rc, nonce |-> <<>>, authIn |-> <<>>,
              fault |-> FALSE]
        ELSE LET e == wc_AesGcmEncrypt_ex(a1.aes, in, a1.iv, a1.ivLen,
                                          EVP_GCM_TLS_TAG_LEN, a1.aad, a1.aadLen)
                 a2 == [a1 EXCEPT !.tagLen = EVP_GCM_TLS_TAG_LEN, !.aes = e.aes,
                                  !.iv = e.ivOut,
                                  !.tag = IF e.rc = 0 THEN e.tag ELSE a1.tag]
                 a3 == IF e.rc = 0
                       THEN [a2 EXCEPT !.iv = MemCpy(a2.iv, 0, a2.aes.reg, a2.ivLen)]
                       ELSE a2
             IN  [aes |-> DisposeAad(a3), ret |-> len, out |-> e.out,
                  fn |-> "encrypt", rc |-> e.rc, nonce |-> e.nonce,
                  authIn |-> AuthIn(a), fault |-> FALSE]

\* The one-shot decryption that leaves aes->iv as it was on success.
CipherDecrypt_KeepIv(a, in) ==
    IF a.aad = NULL /\ a.aadLen # 0 /\ a.ivLen # 0 /\ a.tagLen # 0 THEN Fault(a)
    ELSE
    LET len == Len(in)
        d  == wc_AesGcmDecrypt(a.aes, in, a.iv, a.ivLen, a.tag, a.tagLen,
                               AuthIn(a))
    IN  [aes |-> DisposeAad(a), ret |-> len, out |-> d.out,
         fn |-> "decrypt", rc |-> d.rc, nonce |-> Bytes(a.iv, 0, a.ivLen),
         authIn |-> AuthIn(a), fault |-> FALSE]

\* The one-shot decryption of in (len > 0).
CipherDecrypt(a, in) ==
    IF a.aad = NULL /\ a.aadLen # 0 /\ a.ivLen # 0 /\ a.tagLen # 0 THEN Fault(a)
    ELSE
    LET len == Len(in)
        d  == wc_AesGcmDecrypt(a.aes, in, a.iv, a.ivLen, a.tag, a.tagLen,
                               AuthIn(a))
        a1 == IF d.rc = 0
              THEN [a EXCEPT !.iv = MemCpy(a.iv, 0, a.aes.reg, a.ivLen)]
              ELSE a
    IN  [aes |-> DisposeAad(a1), ret |-> len, out |-> d.out,
         fn |-> "decrypt", rc |-> d.rc, nonce |-> Bytes(a.iv, 0, a.ivLen),
         authIn |-> AuthIn(a), fault |-> FALSE]

\* outNull: the output pointer is NULL (the input is AAD).
we_aes_gcm_cipher(a, outNull, in, allocOk, junk, v3) ==
    IF a.tls = 1 THEN we_aes_gcm_tls_cipher(a, outNull, in, v3)
    ELSE IF outNull THEN AadAppend(a, in, allocOk, junk)
    ELSE IF Len(in) = 0 THEN Result(a, 0, <<>>)
    ELSE IF a.enc = 1 THEN CipherEncrypt(a, in)
    ELSE CipherDecrypt(a, in)


(***************************************************************************)
(* we_aes_gcm_ctrl                                                         *)
(***************************************************************************)
\* EVP_CTRL_AEAD_SET_IVLEN with the lower limit tested as arg < 0.
CtrlSetIvLen_ZeroOk(a, arg) ==
    IF arg < 0 \/ arg > GCM_NONCE_MAX_SZ THEN Result(a, 0, <<>>)
    ELSE Result([a EXCEPT !.ivLen = arg], 1, <<>>)

CtrlSetIvLen(a, arg) ==
    IF arg <= 0 \/ arg > GCM_NONCE_MAX_SZ THEN Result(a, 0, <<>>)
    ELSE Result([a EXCEPT !.ivLen = arg], 1, <<>>)

\* rnd: the bytes the random source gives; rngRc: its result.  The copy of
\* the IV into the host context's own iv field, which the engine never reads,
\* is not modelled.
CtrlSetIvFixed(a, arg, ptr, rnd, rngRc) ==
    LET a1 == IF a.ivLen = 0 THEN [a EXCEPT !.ivLen = GCM_NONCE_MID_SZ] ELSE a
    IN  IF arg = -1
        THEN Result([a1 EXCEPT !.iv = MemCpy(a1.iv, 0, ptr, a1.ivLen)], 1, <<>>)
        ELSE LET x == wc_AesGcmSetIV(a1.aes, a1.ivLen, ptr, arg, rnd, rngRc)
                 a2 == [a1 EXCEPT !.aes = x.aes]
             IN  IF x.rc # 0 THEN Result(a2, 0, <<>>)
                 ELSE Result([a2 EXCEPT !.ivSet = 1,
                                        !.iv = MemCpy(a2.iv, 0, a2.aes.reg, a2.ivLen)],
                             1, <<>>)

CtrlGetIvLen(a) == Result(a, 1, <<a.ivLen>>)

\* The loop ++iv[i] for i from ivLen - 1 down to ivLen - 8, left at the first
\* byte that does not wrap to 0; n counts the bytes still to visit.  An index
\* below 0 is outside iv.
RECURSIVE IvGenLoop(_, _, _)
IvGenLoop(iv, i, n) ==
    IF n = 0 THEN [iv |-> iv, fault |-> FALSE]
    ELSE IF i < 0 THEN [iv |-> iv, fault |-> TRUE]
    ELSE IF iv[i + 1] = 255 THEN IvGenLoop([iv EXCEPT ![i + 1] = 0], i - 1, n - 1)
    ELSE [iv |-> [iv EXCEPT ![i + 1] = iv[i + 1] + 1], fault |-> FALSE]

\* The handler whose carry runs over all ivLen bytes, the prefix included.
CtrlIvGen_CarryAll(a, arg, ptr) ==
    IF arg <= 0 \/ arg > GCM_NONCE_MAX_SZ THEN Result(a, 0, <<>>)
    ELSE LET g == IvGenLoop(MemCpy(a.iv, 0, ptr, arg), a.ivLen - 1, a.ivLen)
         IN  IF g.fault THEN Fault(a) ELSE Result([a EXCEPT !.iv = g.iv], 1, <<>>)

CtrlIvGen(a, arg, ptr) ==
    IF arg <= 0 \/ arg > GCM_NONCE_MAX_SZ THEN Result(a, 0, <<>>)
    ELSE LET g == IvGenLoop(MemCpy(a.iv, 0, ptr, arg), a.ivLen - 1, 8)
         IN  IF g.fault THEN Fault(a) ELSE Result([a EXCEPT !.iv = g.iv], 1, <<>>)

\* The handler that forgets the tag once it has been read.
CtrlGetTag_Consume(a, arg) ==
    IF a.enc = 0 \/ arg <= 0 \/ arg > a.tagLen THEN Result(a, 0, <<>>)
    ELSE Result([a EXCEPT !.tagLen = 0], 1, Bytes(a.tag, 0, arg))

CtrlGetTag(a, arg) ==
    IF a.enc = 0 \/ arg <= 0 \/ arg > a.tagLen THEN Result(a, 0, <<>>)
    ELSE Result(a, 1, Bytes(a.tag, 0, arg))

\* EVP_CTRL_AEAD_SET_TAG without the copy of the tag (line 449 left out).
CtrlSetTag_NoCopy(a, arg, ptr) ==
    IF arg <= 0 \/ arg > AES_BLOCK_SIZE THEN Result(a, 0, <<>>)
    ELSE IF a.enc = 0 /\ ptr = NULL THEN Result(a, 0, <<>>)
    ELSE Result([a EXCEPT !.tagLen = arg], 1, <<>>)

\* The handler that accepts a length above the size of the tag buffer.
CtrlSetTag_NoMax(a, arg, ptr) ==
    IF arg <= 0 THEN Result(a, 0, <<>>)
    ELSE IF a.enc = 0 /\ ptr = NULL THEN Result(a, 0, <<>>)
    ELSE LET n  == IF arg > AES_BLOCK_SIZE THEN AES_BLOCK_SIZE ELSE arg
             a1 == IF a.enc = 0 /\ ptr # NULL
                   THEN [a EXCEPT !.tag = MemCpy(a.tag, 0, ptr, n)]
                   ELSE a
         IN  Result([a1 EXCEPT !.tagLen = arg], 1, <<>>)

\* The handler that copies the tag bytes whenever a buffer is given, on an
\* encrypt session too.
CtrlSetTag_AnyDirCopy(a, arg, ptr) ==
    IF arg <= 0 \/ arg > AES_BLOCK_SIZE THEN Result(a, 0, <<>>)
    ELSE IF a.enc = 0 /\ ptr = NULL THEN Result(a, 0, <<>>)
    ELSE LET a1 == IF ptr # NULL
                   THEN [a EXCEPT !.tag = MemCpy(a.tag, 0, ptr, arg)]
                   ELSE a
         IN  Result([a1 EXCEPT !.tagLen = arg], 1, <<>>)

CtrlSetTag(a, arg, ptr) ==
    IF arg <= 0 \/ arg > AES_BLOCK_SIZE THEN Result(a, 0, <<>>)
    ELSE IF a.enc = 0 /\ ptr = NULL THEN Result(a, 0, <<>>)
    ELSE LET a1 == IF a.enc = 0 /\ ptr # NULL
                   THEN [a EXCEPT !.tag = MemCpy(a.tag, 0, ptr, arg)]
                   ELSE a
         IN  Result([a1 EXCEPT !.tagLen = arg], 1, <<>>)

\* The handler that takes only the explicit IV off the record length, on a
\* decrypt session too.
CtrlTlsAad_NoTagLen(a, arg, ptr, allocOk) ==
    IF arg # EVP_AEAD_TLS1_AAD_LEN THEN Result(a, 0, <<>>)
    ELSE IF ~allocOk THEN Result([a EXCEPT !.aad = NULL], 0, <<>>)
    ELSE LET a1 == [a EXCEPT !.aad = Bytes(ptr, 0, arg), !.aadLen = arg]
             len == a1.aad[arg - 1] * 256 + a1.aad[arg]
             len1 == len - EVP_GCM_TLS_EXPLICIT_IV_LEN
         IN  IF len < EVP_GCM_TLS_EXPLICIT_IV_LEN THEN Result(a1, 0, <<>>)
             ELSE IF a.enc = 0 /\ len1 < EVP_GCM_TLS_TAG_LEN THEN Result(a1, 0, <<>>)
             ELSE Result([a1 EXCEPT !.aad[arg - 1] = len1 \div 256,
                                    !.aad[arg] = len1 % 256,
                                    !.tls = 1],
                         EVP_GCM_TLS_TAG_LEN, <<>>)

\* allocOk: OPENSSL_malloc has memory.
CtrlTlsAad(a, arg, ptr, allocOk) ==
    IF arg # EVP_AEAD_TLS1_AAD_LEN THEN Result(a, 0, <<>>)
    ELSE IF ~allocOk THEN Result([a EXCEPT !.aad = NULL], 0, <<>>)
    ELSE LET a1 == [a EXCEPT !.aad = Bytes(ptr, 0, arg), !.aadLen = arg]
             len == a1.aad[arg - 1] * 256 + a1.aad[arg]
             len1 == len - EVP_GCM_TLS_EXPLICIT_IV_LEN
             len2 == IF a.enc = 0 THEN len1 - EVP_GCM_TLS_TAG_LEN ELSE len1
         IN  IF len < EVP_GCM_TLS_EXPLICIT_IV_LEN THEN Result(a1, 0, <<>>)
             ELSE IF a.enc = 0 /\ len1 < EVP_GCM_TLS_TAG_LEN THEN Result(a1, 0, <<>>)
             ELSE Result([a1 EXCEPT !.aad[arg - 1] = len2 \div 256,
                                    !.aad[arg] = len2 % 256,
                                    !.tls = 1],
                         EVP_GCM_TLS_TAG_LEN, <<>>)

we_aes_gcm_ctrl(a, type, arg, ptr, rnd, rc, allocOk) ==
    CASE type = "EVP_CTRL_AEAD_SET_IVLEN" -> CtrlSetIvLen(a, arg)
      [] type = "EVP_CTRL_GCM_SET_IV_FIXED" -> CtrlSetIvFixed(a, arg, ptr, rnd, rc)
      [] type = "EVP_CTRL_GET_IVLEN" -> CtrlGetIvLen(a)
      [] type = "EVP_CTRL_GCM_IV_GEN" -> CtrlIvGen(a, arg, ptr)
      [] type = "EVP_CTRL_AEAD_GET_TAG" -> CtrlGetTag(a, arg)
      [] type = "EVP_CTRL_AEAD_SET_TAG" -> CtrlSetTag(a, arg, ptr)
      [] type = "EVP_CTRL_AEAD_TLS1_AAD" -> CtrlTlsAad(a, arg, ptr, allocOk)
      [] OTHER -> Result(a, 0, <<>>)


(***************************************************************************)
(* The caller: one session, any call at any time.                          *)
(***************************************************************************)
VARIABLES
    sess,    \* the we_AesGcm object of the session
    ret,     \* the value the last call returned
    out,     \* the bytes the last call wrote through its output pointer
    call,    \* the last call: its arguments and the cipher call it made
    fault,   \* a call has accessed memory outside its buffers
    v3,      \* the build is against OpenSSL 3.0 or later
    ncalls,  \* calls made on the session
    hist,    \* the successful encryptions: <<key, nonce, epoch, tag>> each
    epoch,   \* the number of calls so far that supplied a key or an IV
    pushed,  \* the AAD accepted since the accumulator was last empty
    sc,      \* the caller's script: free calls, or a scenario and its place
    leaked,  \* AAD blocks no pointer refers to any more, never freed
    rng      \* we_globalRng, we_globalRngInited and the engine calls made

vars == <<sess, ret, out, call, fault, v3, ncalls, hist, epoch, pushed, sc, leaked,
          rng>>

\* Calls an encrypt-only caller makes before it stops.
MaxEncCalls == 4
\* Records a TLS sender sends.
MaxRecords == 2

Keys == {1, 2}

\* Caller buffers of 16 bytes holding an IV, a nonce seed or a tag.
IvZero == Fill(16, 0)
IvFF == Fill(16, 255)
IVs == {IvZero, IvFF}
\* A seed whose counter ends in 0xFF for the IV lengths 8, 12 and 16.
IvCarry == [i \in 1..GCM_NONCE_MAX_SZ |-> IF i % 4 = 0 THEN 255 ELSE 0]

FixedIv == <<1, 2, 3, 4>>
Rnds == {Fill(12, 0), Fill(12, 255)}
Junk == {0, 165}

\* A TLS record header whose length field holds n.
TlsHeader(n) == <<0, 0, 0, 0, 0, 0, 0, 1, 23, 3, 3, n \div 256, n % 256>>

\* The caller that makes any call (on a session of either direction), and the
\* caller that only ever encrypts.
Free == [name |-> "free"]
EncOnly == [name |-> "enc"]
Wide == sc.name = "free"

AadInputs == IF Wide THEN {<<>>, <<97>>, <<98, 99>>} ELSE {<<97>>}
Payloads == IF Wide THEN {<<>>, <<1>>, <<1, 2>>} ELSE {<<1>>}
TlsHeaders == IF Wide THEN {TlsHeader(7), TlsHeader(10), TlsHeader(26), TlsHeader(264)}
              ELSE {TlsHeader(10)}
TlsRecords == IF Wide THEN {<<>>, Fill(3, 0), Fill(26, 0)} ELSE {Fill(26, 0)}

NoCall ==
    [op |-> "none", type |-> "", arg |-> 0, in |-> <<>>, outNull |-> FALSE,
     tls |-> 0, enc |-> 0, ivLen |-> 0, fn |-> "none", rc |-> 0, nonce |-> <<>>,
     authIn |-> <<>>, acc |-> [ok |-> TRUE, bytes |-> <<>>],
     dir |-> 0, allocOk |-> TRUE]

\* The process-wide random number generator of internal.c before the engine
\* is bound.  live: the wc_InitRng calls that succeeded less the wc_FreeRng
\* calls; log: each wolfCrypt call made with the value of live before it;
\* calls: the engine calls made.
RngZero == [inited |-> 0, live |-> 0, log |-> <<>>, calls |-> <<>>]

Fresh ==
    /\ sess = AesGcmZero
    /\ ret = 0
    /\ out = <<>>
    /\ call = NoCall
    /\ fault = FALSE
    /\ ncalls = 0
    /\ hist = <<>>
    /\ epoch = 0
    /\ pushed = [ok |-> TRUE, bytes |-> <<>>]
    /\ leaked = 0
    /\ rng = RngZero

Init == Fresh /\ v3 \in BOOLEAN /\ sc = Free

InitEnc == Fresh /\ v3 = FALSE /\ sc = EncOnly

\* The accumulator ghost after a call that took the session from a to b.
\* aadCall: an AAD-only call in one-shot mode, of input in.
Pushed(a, b, aadCall, in) ==
    IF b.aad = NULL /\ b.aadLen = 0 THEN [ok |-> TRUE, bytes |-> <<>>]
    ELSE IF aadCall
    THEN IF b.aadLen = a.aadLen + Len(in)
         THEN [pushed EXCEPT !.bytes = pushed.bytes \o in]
         ELSE pushed
    ELSE IF b.aad = a.aad /\ b.aadLen = a.aadLen THEN pushed
    ELSE [ok |-> FALSE, bytes |-> <<>>]

\* The tag an encryption produced: in aes->tag (one-shot), at the end of the
\* record (TLS).
TagOf(a, r) ==
    IF a.tls = 1
    THEN Bytes(r.out, Len(r.out) - EVP_GCM_TLS_TAG_LEN, EVP_GCM_TLS_TAG_LEN)
    ELSE r.aes.tag

\* The AAD blocks a call lost: we_aes_gcm_init sets aes->aad to NULL without
\* freeing the block; every other handler frees a block before dropping it.
Lost(a, b, op) ==
    IF op = "init" /\ a.aad # NULL /\ b.aad = NULL THEN 1 ELSE 0

\* The call op(type, arg, in, outNull) returned r: the new state.  ivCall: the
\* call supplied a key or an IV.  dir: the enc argument of an init call.
\* allocOk: the allocator had memory during the call.
Returns(r, op, type, arg, in, outNull, ivCall, dir, allocOk) ==
    /\ sess' = r.aes
    /\ ret' = r.ret
    /\ out' = r.out
    /\ fault' = r.fault
    /\ call' = [op |-> op, type |-> type, arg |-> arg, in |-> in,
                outNull |-> outNull, tls |-> sess.tls, enc |-> sess.enc,
                ivLen |-> sess.ivLen,
                fn |-> r.fn, rc |-> r.rc, nonce |-> r.nonce, authIn |-> r.authIn,
                acc |-> pushed, dir |-> dir, allocOk |-> allocOk]
    /\ ncalls' = ncalls + 1
    /\ epoch' = IF ivCall THEN epoch + 1 ELSE epoch
    /\ hist' = IF r.fn = "encrypt" /\ r.rc = 0
               THEN Append(hist, <<sess.aes.key, r.nonce, epoch, TagOf(sess, r)>>)
               ELSE hist
    /\ pushed' = IF r.fault THEN pushed
                 ELSE Pushed(sess, r.aes, op = "cipher" /\ outNull /\ sess.tls = 0, in)
    /\ leaked' = leaked + Lost(sess, r.aes, op)
    /\ UNCHANGED <<v3, rng>>

DoInit(key, iv, enc, rcKey) ==
    Returns(we_aes_gcm_init(sess, key, iv, enc, rcKey), "init", "", key, iv, FALSE, TRUE,
            enc, TRUE)

DoCipher(outNull, in, allocOk, junk) ==
    Returns(we_aes_gcm_cipher(sess, outNull, in, allocOk, junk, v3),
            "cipher", "", 0, in, outNull, FALSE, 0, allocOk)

DoCtrl(type, arg, ptr, rnd, rc, allocOk) ==
    Returns(we_aes_gcm_ctrl(sess, type, arg, ptr, rnd, rc, allocOk),
            "ctrl", type, arg, ptr, FALSE,
            type \in {"EVP_CTRL_AEAD_SET_IVLEN", "EVP_CTRL_GCM_SET_IV_FIXED",
                      "EVP_CTRL_GCM_IV_GEN"},
            0, allocOk)

CanCall ==
    /\ ~fault
    /\ \/ sc.name = "free" /\ ncalls < MaxCalls
       \/ sc.name = "enc" /\ ncalls < MaxEncCalls

CallInit ==
    /\ CanCall
    /\ \E key \in {0, 1}, iv \in IVs \cup {NULL}, enc \in {0, 1} :
         \E rcKey \in IF key = 0 \/ ~Wide THEN {0} ELSE {0, -1} :
           /\ ~Wide => enc = 1
           /\ DoInit(key, iv, enc, rcKey)
    /\ UNCHANGED sc

CallAad ==
    /\ CanCall
    /\ \E in \in AadInputs, allocOk \in BOOLEAN, junk \in Junk :
         /\ ~Wide => allocOk /\ junk = 0
         /\ DoCipher(TRUE, in, allocOk, junk)
    /\ UNCHANGED sc

CallPayload ==
    /\ CanCall
    /\ \E in \in IF sess.tls = 1 THEN TlsRecords ELSE Payloads :
         DoCipher(FALSE, in, TRUE, 0)
    /\ UNCHANGED sc

CallSetIvLen ==
    /\ CanCall
    /\ \E arg \in IF Wide THEN {0, 5, 8, 16, 17} ELSE {8} :
         DoCtrl("EVP_CTRL_AEAD_SET_IVLEN", arg, NULL, <<>>, 0, TRUE)
    /\ UNCHANGED sc

CallSetIvFixed ==
    /\ CanCall
    /\ \/ \E ptr \in IVs :
            /\ ~Wide => ptr = IvZero
            /\ DoCtrl("EVP_CTRL_GCM_SET_IV_FIXED", -1, ptr, <<>>, 0, TRUE)
       \/ \E rnd \in Rnds, rc \in {0, -1} :
            /\ ~Wide => rc = 0 /\ rnd = Fill(12, 255)
            /\ DoCtrl("EVP_CTRL_GCM_SET_IV_FIXED", 4, FixedIv, rnd, rc, TRUE)
    /\ UNCHANGED sc

CallGetIvLen ==
    /\ CanCall
    /\ DoCtrl("EVP_CTRL_GET_IVLEN", 0, NULL, <<>>, 0, TRUE)
    /\ UNCHANGED sc

CallIvGen ==
    /\ CanCall
    /\ \E arg \in {0, 8, 12, 16, 17}, ptr \in IVs \cup {IvCarry} :
         /\ ~Wide => arg = 12 /\ ptr = IvZero
         /\ ptr = IvCarry => arg = sess.ivLen
         /\ DoCtrl("EVP_CTRL_GCM_IV_GEN", arg, ptr, <<>>, 0, TRUE)
    /\ UNCHANGED sc

CallGetTag ==
    /\ CanCall
    /\ \E arg \in {0, 4, 16, 17} :
         /\ ~Wide => arg = 16
         /\ DoCtrl("EVP_CTRL_AEAD_GET_TAG", arg, NULL, <<>>, 0, TRUE)
    /\ UNCHANGED sc

CallSetTag ==
    /\ CanCall
    /\ \E arg \in {0, 4, 16, 17}, ptr \in {NULL, IvFF} :
         /\ ptr = NULL => arg = 16
         /\ ~Wide => arg = 4 /\ ptr # NULL
         /\ DoCtrl("EVP_CTRL_AEAD_SET_TAG", arg, ptr, <<>>, 0, TRUE)
    /\ UNCHANGED sc

CallTlsAad ==
    /\ CanCall
    /\ \E arg \in {12, 13}, ptr \in TlsHeaders, allocOk \in BOOLEAN :
         /\ (arg = 12 \/ ~allocOk) => ptr = TlsHeader(26)
         /\ ~Wide => arg = 13 /\ allocOk
         /\ DoCtrl("EVP_CTRL_AEAD_TLS1_AAD", arg, ptr, <<>>, 0, allocOk)
    /\ UNCHANGED sc

CallOther ==
    /\ CanCall
    /\ Wide
    /\ DoCtrl("EVP_CTRL_INIT", 0, NULL, <<>>, 0, TRUE)
    /\ UNCHANGED sc

\* EVP_CIPHER_CTX_free (or _reset) of the context: the method has no cleanup
\* callback, so the host only frees the we_AesGcm block itself; the AAD block
\* aes->aad points to, if any, stays allocated.  The variables then describe
\* the context the caller creates next.
CallCtxFree ==
    /\ CanCall
    /\ Wide
    /\ sess' = AesGcmZero
    /\ ret' = 0
    /\ out' = <<>>
    /\ fault' = FALSE
    /\ call' = [NoCall EXCEPT !.op = "ctxfree", !.tls = sess.tls, !.enc = sess.enc,
                              !.acc = pushed]
    /\ ncalls' = ncalls + 1
    /\ hist' = <<>>
    /\ epoch' = 0
    /\ pushed' = [ok |-> TRUE, bytes |-> <<>>]
    /\ leaked' = leaked + (IF sess.aad # NULL THEN 1 ELSE 0)
    /\ UNCHANGED <<v3, sc, rng>>

Next ==
    \/ CallInit
    \/ CallAad
    \/ CallPayload
    \/ CallSetIvLen
    \/ CallSetIvFixed
    \/ CallGetIvLen
    \/ CallIvGen
    \/ CallGetTag
    \/ CallSetTag
    \/ CallTlsAad
    \/ CallOther
    \/ CallCtxFree

Spec == Init /\ [][Next]_vars

NextEnc ==
    \/ CallInit
    \/ CallAad
    \/ CallPayload
    \/ CallSetIvLen
    \/ CallSetIvFixed
    \/ CallGetIvLen
    \/ CallIvGen
    \/ CallGetTag
    \/ CallSetTag
    \/ CallTlsAad

SpecEnc == InitEnc /\ [][NextEnc]_vars


(***************************************************************************)
(* The host tears the context down and makes a new one: fresh cipher data. *)
(***************************************************************************)
NewSession ==
    /\ sess' = AesGcmZero
    /\ ret' = 0
    /\ out' = <<>>
    /\ call' = NoCall
    /\ fault' = FALSE
    /\ ncalls' = 0
    /\ hist' = <<>>
    /\ epoch' = 0
    /\ pushed' = [ok |-> TRUE, bytes |-> <<>>]
    /\ UNCHANGED <<v3, leaked, rng>>

(***************************************************************************)
(* The round trip: an encrypt session (init, AAD, payload, GetTag) and     *)
(* then a decrypt session (init, SetTag, AAD, payload) fed its output,     *)
(* unchanged or with one bit of the ciphertext, the tag or the AAD flipped.*)
(***************************************************************************)
RtAads == {<<>>, <<97, 98>>}
RtPts == {<<1>>, <<200, 7>>}

\* <<what, offset, bit>>: the bit flipped on the way to the decrypt session.
Tampers ==
    {<<"none", 0, 0>>}
      \cup {<<w, off, b>> : w \in {"ct", "tag", "aad"}, off \in 0..15, b \in 0..7}

RtScripts ==
    {x \in [name : {"rt"}, pc : {0}, key : Keys, iv : IVs, aad : RtAads,
            pt : RtPts, ct : {<<>>}, tag : {<<>>}, tamper : Tampers] :
        /\ x.tamper[1] = "ct" => x.tamper[2] < Len(x.pt)
        /\ x.tamper[1] = "aad" => x.tamper[2] < Len(x.aad)}

InitRT == Fresh /\ v3 = FALSE /\ sc \in RtScripts

\* What reaches the decrypt session of the field f of the script.
Sent(f) ==
    IF sc.tamper[1] = f THEN FlipAt(sc[f], sc.tamper[2], sc.tamper[3]) ELSE sc[f]

RtAt(n) == sc.name = "rt" /\ sc.pc = n /\ ~fault

RtEncInit ==
    /\ RtAt(0)
    /\ DoInit(sc.key, sc.iv, 1, 0)
    /\ sc' = [sc EXCEPT !.pc = 1]

RtEncAad ==
    /\ RtAt(1)
    /\ DoCipher(TRUE, sc.aad, TRUE, 0)
    /\ sc' = [sc EXCEPT !.pc = 2]

RtEncPayload ==
    /\ RtAt(2)
    /\ DoCipher(FALSE, sc.pt, TRUE, 0)
    /\ sc' = [sc EXCEPT !.pc = 3, !.ct = out']

RtEncGetTag ==
    /\ RtAt(3)
    /\ DoCtrl("EVP_CTRL_AEAD_GET_TAG", 16, NULL, <<>>, 0, TRUE)
    /\ sc' = [sc EXCEPT !.pc = 4, !.tag = out']

RtNewSession ==
    /\ RtAt(4)
    /\ NewSession
    /\ sc' = [sc EXCEPT !.pc = 5]

RtDecInit ==
    /\ RtAt(5)
    /\ DoInit(sc.key, sc.iv, 0, 0)
    /\ sc' = [sc EXCEPT !.pc = 6]

RtDecSetTag ==
    /\ RtAt(6)
    /\ DoCtrl("EVP_CTRL_AEAD_SET_TAG", 16, Sent("tag"), <<>>, 0, TRUE)
    /\ sc' = [sc EXCEPT !.pc = 7]

RtDecAad ==
    /\ RtAt(7)
    /\ DoCipher(TRUE, Sent("aad"), TRUE, 0)
    /\ sc' = [sc EXCEPT !.pc = 8]

RtDecPayload ==
    /\ RtAt(8)
    /\ DoCipher(FALSE, Sent("ct"), TRUE, 0)
    /\ sc' = [sc EXCEPT !.pc = 9]

NextRT ==
    \/ RtEncInit
    \/ RtEncAad
    \/ RtEncPayload
    \/ RtEncGetTag
    \/ RtNewSession
    \/ RtDecInit
    \/ RtDecSetTag
    \/ RtDecAad
    \/ RtDecPayload

SpecRT == InitRT /\ [][NextRT]_vars

(***************************************************************************)
(* TLS records: an encrypt session (init, SetIvFixed, then SetTlsAad and a *)
(* record payload call per record) and then a decrypt session with the     *)
(* same key and fixed IV part that is fed the records as they were written.*)
(***************************************************************************)
TlsPts == {<<1>>, <<5, 6>>}

RECURSIVE SeqsUpTo(_, _)
SeqsUpTo(S, n) ==
    IF n = 0 THEN {<<>>}
    ELSE LET shorter == SeqsUpTo(S, n - 1)
         IN  shorter \cup {Append(q, x) : q \in shorter, x \in S}

TlsScripts ==
    [name : {"tls"}, pc : {"eInit"}, key : Keys, rnd : Rnds, rnd2 : Rnds,
     pts : SeqsUpTo(TlsPts, MaxRecords) \ {<<>>}, i : {1}, wire : {<<>>}]

InitTls == Fresh /\ v3 \in BOOLEAN /\ sc \in TlsScripts

TlsAt(pc) == sc.name = "tls" /\ sc.pc = pc /\ ~fault

\* The buffer the sender hands in: room for the explicit IV, the plaintext,
\* room for the tag.
TlsBuffer(pt) ==
    Fill(EVP_GCM_TLS_EXPLICIT_IV_LEN, 0) \o pt \o Fill(EVP_GCM_TLS_TAG_LEN, 0)

TlsEncInit ==
    /\ TlsAt("eInit")
    /\ DoInit(sc.key, NULL, 1, 0)
    /\ sc' = [sc EXCEPT !.pc = "eFixed"]

TlsEncFixed ==
    /\ TlsAt("eFixed")
    /\ DoCtrl("EVP_CTRL_GCM_SET_IV_FIXED", 4, FixedIv, sc.rnd, 0, TRUE)
    /\ sc' = [sc EXCEPT !.pc = "eAad"]

\* The sender's header counts the explicit IV and the plaintext.
TlsEncAad ==
    /\ TlsAt("eAad")
    /\ DoCtrl("EVP_CTRL_AEAD_TLS1_AAD", EVP_AEAD_TLS1_AAD_LEN,
              TlsHeader(Len(sc.pts[sc.i]) + EVP_GCM_TLS_EXPLICIT_IV_LEN),
              <<>>, 0, TRUE)
    /\ sc' = [sc EXCEPT !.pc = "eRec"]

TlsEncRecord ==
    /\ TlsAt("eRec")
    /\ DoCipher(FALSE, TlsBuffer(sc.pts[sc.i]), TRUE, 0)
    /\ sc' = [sc EXCEPT !.wire = Append(sc.wire, out'),
                        !.i = IF sc.i < Len(sc.pts) THEN sc.i + 1 ELSE 1,
                        !.pc = IF sc.i < Len(sc.pts) THEN "eAad" ELSE "new"]

TlsNewSession ==
    /\ TlsAt("new")
    /\ NewSession
    /\ sc' = [sc EXCEPT !.pc = "dInit"]

TlsDecInit ==
    /\ TlsAt("dInit")
    /\ DoInit(sc.key, NULL, 0, 0)
    /\ sc' = [sc EXCEPT !.pc = "dFixed"]

TlsDecFixed ==
    /\ TlsAt("dFixed")
    /\ DoCtrl("EVP_CTRL_GCM_SET_IV_FIXED", 4, FixedIv, sc.rnd2, 0, TRUE)
    /\ sc' = [sc EXCEPT !.pc = "dAad"]

\* The receiver's header counts the explicit IV, the ciphertext and the tag.
TlsDecAad ==
    /\ TlsAt("dAad")
    /\ sc.i <= Len(sc.pts)
    /\ DoCtrl("EVP_CTRL_AEAD_TLS1_AAD", EVP_AEAD_TLS1_AAD_LEN,
              TlsHeader(Len(sc.wire[sc.i])), <<>>, 0, TRUE)
    /\ sc' = [sc EXCEPT !.pc = "dRec"]

TlsDecRecord ==
    /\ TlsAt("dRec")
    /\ DoCipher(FALSE, sc.wire[sc.i], TRUE, 0)
    /\ sc' = [sc EXCEPT !.i = sc.i + 1, !.pc = "dAad"]

NextTls ==
    \/ TlsEncInit
    \/ TlsEncFixed
    \/ TlsEncAad
    \/ TlsEncRecord
    \/ TlsNewSession
    \/ TlsDecInit
    \/ TlsDecFixed
    \/ TlsDecAad
    \/ TlsDecRecord

SpecTls == InitTls /\ [][NextTls]_vars

\* The decrypt session has just been handed record number sc.i - 1.
TlsReceived == sc.name = "tls" /\ sc.pc = "dAad" /\ call.op = "cipher"

(***************************************************************************)
(* Every caller above: the free caller, the encrypting caller, the round   *)
(* trip and the TLS connection.                                            *)
(***************************************************************************)
(***************************************************************************)
(* The global random number generator (internal.c)                         *)
(***************************************************************************)
MaxEngineCalls == 5

\* wc_InitRng(&we_globalRng) returning rc, wc_FreeRng(&we_globalRng): each is
\* logged with the number of live initialisations it found.
wc_InitRng(g, rc) ==
    [g EXCEPT !.live = IF rc = 0 THEN g.live + 1 ELSE g.live,
              !.log = Append(g.log, [fn |-> "wc_InitRng", rc |-> rc, live |-> g.live])]

wc_FreeRng(g) ==
    [g EXCEPT !.live = g.live - 1,
              !.log = Append(g.log, [fn |-> "wc_FreeRng", rc |-> 0, live |-> g.live])]

\* we_init_random that initialises the generator whether or not it is marked
\* initialised.
we_init_random_Always(g, rc) ==
    LET h == wc_InitRng(g, rc)
    IN  IF rc = 0 THEN [rng |-> [h EXCEPT !.inited = 1], ret |-> 1]
        ELSE [rng |-> h, ret |-> 0]

\* we_init_random(); rc is what wc_InitRng returns if it is called.
we_init_random(g, rc) ==
    IF g.inited = 0
    THEN LET h == wc_InitRng(g, rc)
         IN  IF rc = 0 THEN [rng |-> [h EXCEPT !.inited = 1], ret |-> 1]
             ELSE [rng |-> h, ret |-> 0]
    ELSE [rng |-> g, ret |-> 1]

\* wolfengine_init: the generator first; the method tables that follow when it
\* succeeded do not touch the generator.
wolfengine_init(g, rc) == we_init_random(g, rc)

\* wolfengine_destroy: after the method tables are freed, the generator.
wolfengine_destroy(g) ==
    IF g.inited # 0
    THEN [rng |-> [wc_FreeRng(g) EXCEPT !.inited = 0], ret |-> 1]
    ELSE [rng |-> g, ret |-> 1]

EngineReturns(r, name) ==
    /\ rng' = [r.rng EXCEPT !.calls = Append(rng.calls, <<name, r.ret>>)]
    /\ ret' = r.ret
    /\ UNCHANGED <<sess, out, call, fault, v3, ncalls, hist, epoch, pushed, sc, leaked>>

CanCallEngine == sc.name = "rng" /\ Len(rng.calls) < MaxEngineCalls

CallEngineInit ==
    /\ CanCallEngine
    /\ \E rc \in {0, -199} : EngineReturns(wolfengine_init(rng, rc), "init")

CallEngineDestroy ==
    /\ CanCallEngine
    /\ EngineReturns(wolfengine_destroy(rng), "destroy")

InitRng == Fresh /\ v3 = FALSE /\ sc = [name |-> "rng"]

NextRng == CallEngineInit \/ CallEngineDestroy

SpecRng == InitRng /\ [][NextRng]_vars

InitAll == InitRT \/ InitTls \/ InitEnc \/ Init

NextAll ==
    \/ Next
    \/ NextRT
    \/ NextTls

SpecAll == InitAll /\ [][NextAll]_vars

(***************************************************************************)
(* Properties                                                              *)
(***************************************************************************)
\* The last call was a payload call (a destination buffer) of len > 0 bytes
\* that returned.
PayloadCall == call.op = "cipher" /\ ~call.outNull /\ Len(call.in) > 0 /\ ~fault

\* The last call was an AAD-only call in one-shot mode that returned.
AadCall == call.op = "cipher" /\ call.outNull /\ call.tls = 0 /\ ~fault

\* C1: a one-shot payload call of len > 0 in which the primitive (the
\* external-IV commit, the encryption or the decryption) failed returns 0.
C1_FailureReturnsZero ==
    (PayloadCall /\ call.tls = 0 /\ call.rc # 0) => ret = 0

\* C2: no two successful encrypt payload calls of a session ran the
\* primitive under the same key and the same nonce, whatever calls were made.
C2_NoNonceReuse ==
    \A i, j \in 1..Len(hist) :
        (i < j /\ hist[i][1] = hist[j][1]) => hist[i][2] # hist[j][2]

\* C2, amended: two successful encrypt payload calls with no init call and no
\* SetIvLen, SetIvFixed or IvGen call between them ran the primitive under
\* different nonces.
C2_NoNonceReuseWithinRun ==
    \A i, j \in 1..Len(hist) :
        (i < j /\ hist[i][1] = hist[j][1] /\ hist[i][3] = hist[j][3])
            => hist[i][2] # hist[j][2]

\* Two successful encrypt payload calls with no IV-supplying call between them.
C2_Witness ==
    /\ Len(hist) >= 2
    /\ hist[1][1] = hist[2][1]
    /\ hist[1][3] = hist[2][3]

\* An IvGen call with the 8-byte seed of zeros that succeeded.
IvGenZeroSeed(c, r) ==
    /\ c.op = "ctrl"
    /\ c.type = "EVP_CTRL_GCM_IV_GEN"
    /\ c.arg = 8
    /\ c.in = IvZero
    /\ r = 1

\* C3: with ivLen = 12, an IvGen call with the zero seed that follows another
\* leaves the 8-byte big-endian counter iv[4..12) one greater than it was.
C3_IvGenCounterSteps ==
    [][(/\ IvGenZeroSeed(call, ret)
        /\ IvGenZeroSeed(call', ret')
        /\ sess.ivLen = GCM_NONCE_MID_SZ
        /\ sess'.ivLen = GCM_NONCE_MID_SZ
        /\ ~fault')
          => Bytes(sess'.iv, 4, 8) = IncCtr(Bytes(sess.iv, 4, 8), 8)]_vars

\* C4: after a payload call of len > 0, one-shot or TLS, encrypt or decrypt,
\* primitive succeeded or failed, aad is NULL and aadLen is 0.
C4_AadDisposed ==
    PayloadCall => (sess.aad = NULL /\ sess.aadLen = 0)

\* A payload call that found AAD pending and in which the primitive failed.
C4_Witness ==
    /\ PayloadCall
    /\ call.acc.ok
    /\ call.acc.bytes # <<>>
    /\ call.fn \in {"encrypt", "decrypt"}
    /\ call.rc # 0

\* The decrypt session's payload call of the round trip has returned.
RtDone == sc.name = "rt" /\ sc.pc = 9

\* C5: the decrypt session given the key, nonce, AAD, ciphertext and tag of
\* the encrypt session succeeds, returns len(P) and outputs P.
C5_RoundTrip ==
    (RtDone /\ sc.tamper[1] = "none")
        => (call.rc = 0 /\ ret = Len(sc.pt) /\ out = sc.pt)

\* A round trip with AAD that went through untouched.
C5_Witness ==
    /\ RtDone
    /\ sc.tamper[1] = "none"
    /\ Len(sc.aad) > 0
    /\ Len(sc.ct) = Len(sc.pt)
    /\ call.fn = "decrypt"

\* C6: with one bit of the ciphertext, of the tag or of the AAD changed, the
\* decrypt payload call reports failure: it returns 0.
C6_TamperRejected ==
    (RtDone /\ sc.tamper[1] # "none") => ret = 0

\* C7: the AAD held after consecutive one-shot AAD calls is the concatenation
\* of their inputs in call order, it is what the next payload call hands to
\* the primitive, and after an AAD call pushing x then y leaves the session as
\* pushing x \o y does.
C7_AadConcatenates ==
    /\ (pushed.ok /\ ~fault)
         => /\ sess.aad = pushed.bytes
            /\ sess.aadLen = Len(pushed.bytes)
    /\ (PayloadCall /\ call.tls = 0 /\ call.acc.ok
          /\ call.fn \in {"encrypt", "decrypt"})
         => call.authIn = call.acc.bytes
    /\ (AadCall /\ pushed.ok)
         => \A x \in AadInputs, y \in AadInputs, junk \in Junk :
              AadAppend(AadAppend(sess, x, TRUE, junk).aes, y, TRUE, junk).aes
                = AadAppend(sess, x \o y, TRUE, junk).aes

\* A payload call that ran the primitive after more than one AAD call.
C7_Witness ==
    /\ PayloadCall
    /\ call.tls = 0
    /\ call.acc.ok
    /\ call.fn \in {"encrypt", "decrypt"}
    /\ Len(call.acc.bytes) = 3
    /\ call.authIn = call.acc.bytes

\* C8: a one-shot payload call of len = 0 returns 0, writes nothing and
\* leaves no AAD pending.
C8_EmptyPayloadClearsAad ==
    (call.op = "cipher" /\ ~call.outNull /\ call.tls = 0 /\ Len(call.in) = 0
       /\ ~fault)
        => (ret = 0 /\ out = <<>> /\ sess.aad = NULL /\ sess.aadLen = 0)

\* C9: a record written by the encrypt session of a TLS connection passes
\* the tag verification of the decrypt session and yields its plaintext.
C9_TlsRoundTrip ==
    TlsReceived => (call.rc = 0 /\ out = sc.pts[sc.i - 1])

\* C10: an AAD-only call that appended its len > 0 bytes returns len, and one
\* that appended nothing returns 0.
C10_AadCallReturnsLen ==
    /\ (AadCall /\ Len(call.in) > 0 /\ sess.aadLen = Len(call.acc.bytes) + Len(call.in)
          /\ call.acc.ok)
         => ret = Len(call.in)
    /\ (AadCall /\ Len(call.in) > 0 /\ sess.aadLen = Len(call.acc.bytes)
          /\ call.acc.ok)
         => ret = 0

\* An AAD-only call (no destination buffer), in whatever mode, is returning.
AadOnlyStep == call'.op = "cipher" /\ call'.outNull /\ ~fault'

\* C11: in every mode, TLS included, an AAD-only call for which memory is
\* available appends its input to the AAD, runs no cipher and returns 0.
C11_AadOnlyAppends ==
    [][(AadOnlyStep /\ call'.allocOk /\ (sess.aad = NULL => sess.aadLen = 0))
         => /\ sess'.aad = AuthIn(sess) \o call'.in
            /\ sess'.aadLen = sess.aadLen + Len(call'.in)
            /\ call'.fn = "none"
            /\ ret' = 0]_vars

\* C12: an AAD-only call during which the buffer cannot grow returns 0 and
\* leaves the AAD bytes and aadLen (and the rest of the session) as they were.
C12_AllocFailureKeepsAad ==
    [][(AadOnlyStep /\ call'.tls = 0 /\ ~call'.allocOk)
         => /\ ret' = 0
            /\ sess'.aad = sess.aad
            /\ sess'.aadLen = sess.aadLen
            /\ sess' = sess]_vars

\* An AAD call that found no memory while AAD was pending.
C12_Witness ==
    /\ AadCall
    /\ ~call.allocOk
    /\ Len(call.in) > 0
    /\ call.acc.ok
    /\ call.acc.bytes # <<>>
    /\ sess.aad = call.acc.bytes

\* The last call was the control command type, and it returned.
CtrlCall(type) == call.op = "ctrl" /\ call.type = type /\ ~fault

\* C13: an initialized session has ivLen in 1..16, and GetIvLen reports a
\* value in 1..16.
C13_IvLenInRange ==
    /\ (sess.init = 1 /\ ~fault) => sess.ivLen \in 1..GCM_NONCE_MAX_SZ
    /\ (sess.init = 1 /\ CtrlCall("EVP_CTRL_GET_IVLEN"))
         => out[1] \in 1..GCM_NONCE_MAX_SZ

\* C14: SetIvLen with arg in 1..16 returns 1 and sets ivLen to arg; with any
\* other arg it returns 0 and leaves the session as it was.
C14_SetIvLen ==
    [][(call'.op = "ctrl" /\ call'.type = "EVP_CTRL_AEAD_SET_IVLEN")
         => IF call'.arg \in 1..GCM_NONCE_MAX_SZ
            THEN ret' = 1 /\ sess' = [sess EXCEPT !.ivLen = call'.arg]
            ELSE ret' = 0 /\ sess' = sess]_vars

\* SetIvLen refused a length of 0 on a session that had a length set.
C14_Witness ==
    /\ CtrlCall("EVP_CTRL_AEAD_SET_IVLEN")
    /\ call.arg = 0
    /\ ret = 0
    /\ sess.ivLen > 0

\* C15: GetTag(arg) returns 0 on a decrypt session, when no encrypt payload
\* call of the session has produced a tag, and when arg <= 0 or arg > 16;
\* otherwise it returns 1 and the first arg bytes of the tag of the most
\* recent successful encrypt payload call.
C15_GetTag ==
    CtrlCall("EVP_CTRL_AEAD_GET_TAG")
        => IF \/ call.enc = 0
              \/ hist = <<>>
              \/ call.arg <= 0
              \/ call.arg > EVP_GCM_TLS_TAG_LEN
           THEN ret = 0
           ELSE ret = 1 /\ out = Bytes(hist[Len(hist)][4], 0, call.arg)

\* C16: SetTag on an encrypt session returns 0 and leaves tag and tagLen as
\* they were.
C16_SetTagEncryptFails ==
    [][(call'.op = "ctrl" /\ call'.type = "EVP_CTRL_AEAD_SET_TAG" /\ sess.enc = 1)
         => /\ ret' = 0
            /\ sess'.tag = sess.tag
            /\ sess'.tagLen = sess.tagLen]_vars

\* C17: after an encrypt payload call, one-shot or TLS, of any length,
\* tagLen is 16.
C17_EncryptTagLen ==
    (call.op = "cipher" /\ ~call.outNull /\ call.enc = 1 /\ ~fault)
        => sess.tagLen = EVP_GCM_TLS_TAG_LEN

\* A call is returning on the session (not the making of a new session).
CallStep == call'.op \notin {"none", "ctxfree"} /\ ~fault'

\* An init call that enters the block of lines 94-108 is returning: the first
\* init call of the session, or one with neither key nor IV.
ResetStep ==
    /\ call'.op = "init"
    /\ (call'.arg = 0 /\ call'.in = NULL) \/ sess.init = 0

\* A payload call or a SetTag command is returning.
TagStep ==
    \/ call'.op = "cipher" /\ ~call'.outNull
    \/ call'.op = "ctrl" /\ call'.type = "EVP_CTRL_AEAD_SET_TAG"

\* C18: tag and tagLen change only through SetTag or a payload call; AAD-only
\* calls, the other control commands and init calls on an initialized
\* session leave both as they were.
C18_TagFrame ==
    [][(CallStep /\ ~TagStep /\ (call'.op = "init" => sess.init = 1))
         => (sess'.tag = sess.tag /\ sess'.tagLen = sess.tagLen)]_vars

\* C18, amended: tag and tagLen change only through SetTag, a payload call,
\* or an init call that resets the session (the first one, or one with
\* neither key nor IV).
C18_TagFrameButReset ==
    [][(CallStep /\ ~TagStep /\ ~ResetStep)
         => (sess'.tag = sess.tag /\ sess'.tagLen = sess.tagLen)]_vars

\* An init call with a key or an IV on an initialized session holding a tag
\* length kept it.
C18_Witness ==
    /\ call.op = "init"
    /\ call.arg # 0 \/ call.in # NULL
    /\ ncalls >= 2
    /\ sess.init = 1
    /\ sess.tagLen > 0

\* C19: once the first init call has set the direction, no call changes it.
C19_DirectionFixed ==
    [][(CallStep /\ sess.init = 1) => sess'.enc = sess.enc]_vars

\* C19, amended: the direction of an initialized session changes only in an
\* init call with neither key nor IV, which sets it to its enc argument; an
\* init call with a key or an IV leaves it, whatever its enc argument.
C19_DirectionFixedButReset ==
    [][(CallStep /\ sess.init = 1)
         => sess'.enc = IF ResetStep THEN call'.dir ELSE sess.enc]_vars

\* An init call with a key or an IV asked for the other direction and the
\* session kept its own.
C19_Witness ==
    /\ call.op = "init"
    /\ call.arg # 0 \/ call.in # NULL
    /\ ncalls >= 2
    /\ call.dir # sess.enc
    /\ call.enc = sess.enc

\* C20: once SetTlsAad has put the session in TLS mode, it stays in TLS mode
\* through every later call.
C20_TlsPersists ==
    [][(CallStep /\ sess.tls = 1) => sess'.tls = 1]_vars

\* C20, amended: a session in TLS mode stays in TLS mode through every call
\* but an init call that resets the session (one with neither key nor IV, or
\* the first init call), which puts it back in one-shot mode.
C20_TlsPersistsButReset ==
    [][(CallStep /\ sess.tls = 1)
         => sess'.tls = IF ResetStep THEN 0 ELSE 1]_vars

\* An init call with a key or an IV on an initialized session in TLS mode
\* left it in TLS mode.
C20_Witness ==
    /\ call.op = "init"
    /\ call.arg # 0 \/ call.in # NULL
    /\ call.tls = 1
    /\ sess.tls = 1

\* C21: the initialized flag changes only in an init call that returns
\* success: an init call that fails leaves it as it was (false on a new
\* session), and no other call changes it.
C21_InitFlagOnlyOnSuccess ==
    [][(CallStep /\ ~(call'.op = "init" /\ ret' = 1)) => sess'.init = sess.init]_vars

\* C22: in TLS record mode, a payload call whose cipher call fails (bad
\* argument, or tag mismatch on decrypt) returns 0 and leaves no AAD: aad is
\* NULL and aadLen is 0.
C22_TlsFailureReleasesAad ==
    (PayloadCall /\ ~fault /\ call.tls = 1 /\ call.fn # "none" /\ call.rc # 0)
        => (ret = 0 /\ sess.aad = NULL /\ sess.aadLen = 0)

C22_Witness ==
    /\ PayloadCall /\ ~fault /\ call.tls = 1
    /\ call.fn = "decrypt" /\ call.rc = -180
    /\ Len(call.authIn) = EVP_AEAD_TLS1_AAD_LEN
    /\ ret = 0 /\ sess.aad = NULL

\* C23: after the context of a session is torn down, no AAD block of the
\* session remains allocated: every block it allocated has been freed.
C23_CleanupReleasesAad == call.op = "ctxfree" => leaked = 0

\* C24: over any sequence of engine init and destroy calls, wc_InitRng is
\* called only while the generator is not initialised and wc_FreeRng only
\* while it is; the flag we_globalRngInited is set exactly when the generator
\* is initialised, so a repeated init makes no call and a failed
\* initialisation leaves the flag clear.
C24_RngInitOnce ==
    /\ rng.live \in {0, 1}
    /\ rng.inited = rng.live
    /\ \A i \in 1..Len(rng.log) :
          /\ rng.log[i].fn = "wc_InitRng" => rng.log[i].live = 0
          /\ rng.log[i].fn = "wc_FreeRng" => rng.log[i].live = 1

C24_Witness ==
    /\ Len(rng.calls) = 5
    /\ rng.calls = <<<<"init", 0>>, <<"init", 1>>, <<"init", 1>>, <<"destroy", 1>>,
                     <<"destroy", 1>>>>
    /\ Len(rng.log) = 3
    /\ rng.inited = 0

\* A payload call in TLS record mode returns without a fault and without a
\* failure of the cipher call.
TlsPayloadStep(enc) ==
    /\ call'.op = "cipher" /\ ~call'.outNull /\ ~fault'
    /\ sess.tls = 1 /\ sess.enc = enc
    /\ call'.rc = 0

\* C25: a TLS record encrypt call of len > 0 bytes writes iv[4..12) to
\* out[0..8), encrypts the len - 24 bytes after the explicit IV under the
\* full iv and the 13 bytes of AAD, puts the 16-byte tag at out[len-16..len)
\* and returns len; a call of 0 bytes returns 0 and makes no cipher call.
C25_TlsEncryptRecord ==
    [][TlsPayloadStep(1) =>
         LET len == Len(call'.in)
             bodyLen == len - EVP_GCM_TLS_EXPLICIT_IV_LEN - EVP_GCM_TLS_TAG_LEN
         IN  IF len = 0 THEN ret' = 0 /\ call'.fn = "none"
             ELSE /\ call'.fn = "encrypt"
                  /\ ret' = len
                  /\ Len(out') = len
                  /\ Bytes(out', 0, EVP_GCM_TLS_EXPLICIT_IV_LEN)
                       = Bytes(sess.iv, EVP_GCM_TLS_FIXED_IV_LEN,
                               EVP_GCM_TLS_EXPLICIT_IV_LEN)
                  /\ call'.authIn = Bytes(sess.aad, 0, EVP_AEAD_TLS1_AAD_LEN)
                  /\ call'.nonce = Bytes(sess.iv, 0, sess.ivLen)
                  /\ Bytes(out', EVP_GCM_TLS_EXPLICIT_IV_LEN, bodyLen)
                       = GcmCrypt(sess.aes.key, call'.nonce,
                                  Bytes(call'.in, EVP_GCM_TLS_EXPLICIT_IV_LEN, bodyLen))
                  /\ Bytes(out', len - EVP_GCM_TLS_TAG_LEN, EVP_GCM_TLS_TAG_LEN)
                       = GcmTag(sess.aes.key, call'.nonce, call'.authIn,
                                Bytes(out', EVP_GCM_TLS_EXPLICIT_IV_LEN, bodyLen))
        ]_vars

\* C26: a TLS record decrypt call of len > 0 bytes copies in[0..8) to
\* iv[4..12) and leaves iv[0..4), checks the len - 24 bytes after the explicit
\* IV against the tag in[len-16..len) and the AAD, and when the check passes
\* returns the plaintext length len - 24.
C26_TlsDecryptRecord ==
    [][(TlsPayloadStep(0) /\ Len(call'.in) > 0) =>
         LET len == Len(call'.in)
             bodyLen == len - EVP_GCM_TLS_EXPLICIT_IV_LEN - EVP_GCM_TLS_TAG_LEN
             body == Bytes(call'.in, EVP_GCM_TLS_EXPLICIT_IV_LEN, bodyLen)
         IN  /\ call'.fn = "decrypt"
             /\ sess'.iv = MemCpy(sess.iv, EVP_GCM_TLS_FIXED_IV_LEN, call'.in,
                                  EVP_GCM_TLS_EXPLICIT_IV_LEN)
             /\ call'.nonce = Bytes(sess'.iv, 0, sess.ivLen)
             /\ call'.authIn = Bytes(sess.aad, 0, sess.aadLen)
             /\ Bytes(call'.in, len - EVP_GCM_TLS_TAG_LEN, EVP_GCM_TLS_TAG_LEN)
                  = GcmTag(sess.aes.key, call'.nonce, call'.authIn, body)
             /\ out' = GcmUncrypt(sess.aes.key, call'.nonce, body)
             /\ ret' = bodyLen
        ]_vars

\* A SetTlsAad call returned; L is the record length its header carries.
TlsAadStep == call'.op = "ctrl" /\ call'.type = "EVP_CTRL_AEAD_TLS1_AAD" /\ ~fault'

HeaderLen(hdr) ==
    hdr[EVP_AEAD_TLS1_AAD_LEN - 1] * 256 + hdr[EVP_AEAD_TLS1_AAD_LEN]

\* The least record length SetTlsAad accepts: the explicit IV, and on a
\* decrypt session the tag.
MinRecordLen(enc) ==
    IF enc = 0 THEN EVP_GCM_TLS_EXPLICIT_IV_LEN + EVP_GCM_TLS_TAG_LEN
    ELSE EVP_GCM_TLS_EXPLICIT_IV_LEN

C28_SetTlsAadFailure ==
    [][(/\ TlsAadStep
        /\ \/ call'.arg # EVP_AEAD_TLS1_AAD_LEN
           \/ HeaderLen(call'.in) < MinRecordLen(sess.enc))
         => /\ ret' = 0
            /\ sess'.tls = sess.tls
            /\ sess'.aad = sess.aad
            /\ sess'.aadLen = sess.aadLen]_vars

\* The bytes of b, from the end, that are 0xFF without a break.
TrailingFF(b) ==
    Cardinality({j \in 1..Len(b) : \A i \in j..Len(b) : b[i] = 255})

\* b plus one, big-endian, modulo 256^Len(b): the trailing 0xFF bytes wrap to
\* 0 and the byte before them, if there is one, grows by one.
PlusOne(b) ==
    LET k == TrailingFF(b)
    IN  [i \in 1..Len(b) |->
            IF i > Len(b) - k THEN 0
            ELSE IF i = Len(b) - k THEN b[i] + 1
            ELSE b[i]]

\* C29: with 8 <= ivLen <= 16, IvGen with a seed of ivLen bytes leaves
\* iv[0..ivLen-8) equal to the seed's prefix and iv[ivLen-8..ivLen) equal to
\* the seed's last 8 bytes plus one modulo 2^64: the carry passes only through
\* bytes that wrapped from 0xFF to 0 and never into the prefix.
C29_IvGenIncrement ==
    [][(/\ call'.op = "ctrl" /\ call'.type = "EVP_CTRL_GCM_IV_GEN" /\ ~fault'
        /\ sess.ivLen \in EVP_GCM_TLS_EXPLICIT_IV_LEN..GCM_NONCE_MAX_SZ
        /\ call'.arg = sess.ivLen)
         => LET n == sess.ivLen
                pre == n - EVP_GCM_TLS_EXPLICIT_IV_LEN
            IN  /\ ret' = 1
                /\ Bytes(sess'.iv, 0, pre) = Bytes(call'.in, 0, pre)
                /\ Bytes(sess'.iv, pre, EVP_GCM_TLS_EXPLICIT_IV_LEN)
                     = PlusOne(Bytes(call'.in, pre, EVP_GCM_TLS_EXPLICIT_IV_LEN))
                /\ Bytes(sess'.iv, n, GCM_NONCE_MAX_SZ - n)
                     = Bytes(sess.iv, n, GCM_NONCE_MAX_SZ - n)
                /\ sess' = [sess EXCEPT !.iv = sess'.iv]]_vars

\* IvGen carried out of one wrapped byte with a 12-byte IV.
C29_Witness ==
    /\ CtrlCall("EVP_CTRL_GCM_IV_GEN")
    /\ sess.ivLen = GCM_NONCE_MID_SZ
    /\ call.arg = sess.ivLen
    /\ call.in = IvCarry
    /\ ret = 1
    /\ Bytes(sess.iv, 0, GCM_NONCE_MID_SZ) = <<0, 0, 0, 255, 0, 0, 0, 255, 0, 0, 1, 0>>

\* C30: SetTag with n in 1..16 on a decrypt session with a buffer stores the
\* n bytes at the start of tag and sets tagLen = n; on an encrypt session it
\* sets tagLen = n and leaves the tag bytes; with n <= 0, n > 16, or on a
\* decrypt session without a buffer, it returns 0 and leaves tag and tagLen
\* (and the rest of the session) as they were.
C30_SetTag ==
    [][(call'.op = "ctrl" /\ call'.type = "EVP_CTRL_AEAD_SET_TAG" /\ ~fault')
         => LET n == call'.arg
            IN  IF n \in 1..AES_BLOCK_SIZE /\ ~(sess.enc = 0 /\ call'.in = NULL)
                THEN /\ ret' = 1
                     /\ sess'.tagLen = n
                     /\ IF sess.enc = 0
                        THEN /\ Bytes(sess'.tag, 0, n) = Bytes(call'.in, 0, n)
                             /\ Bytes(sess'.tag, n, AES_BLOCK_SIZE - n)
                                  = Bytes(sess.tag, n, AES_BLOCK_SIZE - n)
                        ELSE sess'.tag = sess.tag
                     /\ sess' = [sess EXCEPT !.tag = sess'.tag, !.tagLen = n]
                ELSE ret' = 0 /\ sess' = sess]_vars

\* SetTag on an encrypt session was given a buffer: it took the length and
\* left the tag bytes.
C30_Witness ==
    /\ CtrlCall("EVP_CTRL_AEAD_SET_TAG")
    /\ call.enc = 1
    /\ call.in = IvFF
    /\ call.arg = 4
    /\ ret = 1
    /\ sess.tagLen = 4
    /\ sess.tag = Fill(AES_BLOCK_SIZE, 0)

\* A one-shot payload call of len > 0 returned.
OneShotPayloadStep ==
    /\ call'.op = "cipher" /\ ~call'.outNull /\ Len(call'.in) > 0 /\ ~fault'
    /\ sess.tls = 0

\* C31: a one-shot payload call of len > 0 whose cipher calls succeed
\* returns len and leaves in iv[0..ivLen) the nonce register of the primitive
\* as it is after the operation; one in which a cipher call fails leaves iv as
\* it was.
C31_IvCachedFromRegister ==
    [][OneShotPayloadStep =>
         IF call'.rc = 0
         THEN /\ ret' = Len(call'.in)
              /\ call'.fn \in {"encrypt", "decrypt"}
              /\ sess'.iv = MemCpy(sess.iv, 0, sess'.aes.reg, sess.ivLen)
         ELSE sess'.iv = sess.iv]_vars

\* A decryption succeeded and the cached IV is no longer the nonce it used.
C31_Witness ==
    /\ PayloadCall
    /\ call.tls = 0
    /\ call.fn = "decrypt"
    /\ call.rc = 0
    /\ ret = Len(call.in)
    /\ Bytes(sess.iv, 0, sess.ivLen) = Bytes(sess.aes.reg, 0, sess.ivLen)
    /\ Bytes(sess.iv, 0, sess.ivLen) # call.nonce

\* C32: SetIvFixed with arg = -1 copies ivLen bytes of the buffer into iv and
\* leaves ivSet; with another length it sets ivSet = 1 and iv to the register
\* the primitive completed with random bytes, and when the random fill fails
\* it returns 0 and leaves iv, ivLen and ivSet as they were.
C32_SetIvFixed ==
    [][(call'.op = "ctrl" /\ call'.type = "EVP_CTRL_GCM_SET_IV_FIXED" /\ ~fault')
         => LET n == sess'.ivLen
            IN  IF call'.arg = -1
                THEN /\ ret' = 1
                     /\ sess'.iv = MemCpy(sess.iv, 0, call'.in, n)
                     /\ sess'.ivSet = sess.ivSet
                ELSE IF ret' = 1
                THEN /\ sess'.ivSet = 1
                     /\ sess'.iv = MemCpy(sess.iv, 0, sess'.aes.reg, n)
                     /\ Bytes(sess'.iv, 0, call'.arg) = call'.in
                ELSE /\ ret' = 0
                     /\ NonceSzOk(n)
                          => /\ sess'.iv = sess.iv
                             /\ sess'.ivLen = sess.ivLen
                             /\ sess'.ivSet = sess.ivSet]_vars

\* A one-shot encrypt payload call sets the external IV from iv exactly when
\* ivSet is 0: it then encrypts under iv, and otherwise under the register.
CommitsIffNotSet ==
    (OneShotPayloadStep /\ sess.enc = 1)
       => /\ sess.ivSet = 0
               => \/ call'.fn = "setextiv" /\ call'.rc # 0
                  \/ /\ call'.fn = "encrypt"
                     /\ call'.rc = 0 => call'.nonce = Bytes(sess.iv, 0, sess.ivLen)
          /\ sess.ivSet # 0
               => /\ call'.fn = "encrypt"
                  /\ call'.rc = 0 => call'.nonce = Bytes(sess.aes.reg, 0, sess.ivLen)

\* The call is not an init call with neither key nor IV.
NotBareInit == call'.op = "init" => (call'.arg # 0 \/ call'.in # NULL)

C34_InitIvIsTwelve ==
    [][(call'.op = "init" /\ call'.in # NULL /\ ret' = 1 /\ ~fault')
         => /\ sess'.ivLen = GCM_NONCE_MID_SZ
            /\ sess'.iv = MemCpy(sess.iv, 0, call'.in, GCM_NONCE_MID_SZ)]_vars

\* An init call was given an IV on a session whose ivLen SetIvLen had set to
\* 16: it took 12 bytes and left the last four.
C34_Witness ==
    /\ call.op = "init" /\ ~fault
    /\ call.in = IvFF
    /\ call.ivLen = GCM_NONCE_MAX_SZ
    /\ ret = 1
    /\ sess.ivLen = GCM_NONCE_MID_SZ
    /\ sess.iv = Fill(GCM_NONCE_MID_SZ, 255) \o Fill(4, 0)

\* C35: in every state of an initialized session 0 <= tagLen <= 16 and the
\* tag buffer has its 16 bytes, so that GetTag, SetTag and the cipher calls,
\* which move tagLen or arg <= 16 bytes, stay within the tag buffer.
C35_TagLenInRange ==
    (sess.init = 1 /\ ~fault)
       => /\ sess.tagLen \in 0..AES_BLOCK_SIZE
          /\ Len(sess.tag) = AES_BLOCK_SIZE
          /\ CtrlCall("EVP_CTRL_AEAD_GET_TAG") => Len(out) <= AES_BLOCK_SIZE

\* SetTag refused 17 bytes on an initialized session.
C35_Witness ==
    /\ CtrlCall("EVP_CTRL_AEAD_SET_TAG")
    /\ call.arg = AES_BLOCK_SIZE + 1
    /\ ret = 0
    /\ sess.init = 1
    /\ sess.tagLen \in 0..AES_BLOCK_SIZE

\* C36: in every reachable state aadLen > 0 implies that the AAD block is
\* there: a NULL aad always has aadLen = 0, also after an allocation failure
\* in an AAD-only call or in SetTlsAad.
C36_AadLenHasBuffer == ~fault => (sess.aadLen > 0 => sess.aad # NULL)

\* C37: no init, control or payload call drops the session's reference to a
\* pending AAD block without freeing the block.
C37_NoAadLeak ==
    [][(call'.op \in {"init", "ctrl", "cipher"}) => leaked' = leaked]_vars

\* C38: for every ivLen a session can have, 0 and values below 8 included,
\* and every seed length IvGen accepts, each byte IvGen reads or writes is
\* one of the 16 bytes of iv.
C38_IvGenInBounds ==
    (call.op = "ctrl" /\ call.type = "EVP_CTRL_GCM_IV_GEN") => ~fault

\* C39: a TLS record payload call with 0 < len < 24 runs no cipher call on a
\* length that is len - 8 - 16 wrapped to 32 bits, and addresses its buffers
\* only inside [0, len).
C39_ShortTlsRecord ==
    (/\ call.op = "cipher" /\ call.tls = 1 /\ ~call.outNull
     /\ Len(call.in) > 0
     /\ Len(call.in) < EVP_GCM_TLS_EXPLICIT_IV_LEN + EVP_GCM_TLS_TAG_LEN)
       => ~fault

\* The control types the handler has a case for.
Supported ==
    {"EVP_CTRL_AEAD_SET_IVLEN", "EVP_CTRL_GCM_SET_IV_FIXED", "EVP_CTRL_GET_IVLEN",
     "EVP_CTRL_GCM_IV_GEN", "EVP_CTRL_AEAD_GET_TAG", "EVP_CTRL_AEAD_SET_TAG",
     "EVP_CTRL_AEAD_TLS1_AAD"}

\* C40: IvGen with a length <= 0 or > 16, GetTag on a decrypt session or with
\* a length <= 0 or above tagLen, and a control type the handler does not
\* know return 0 and leave every field of the session; GetIvLen and a
\* successful GetTag leave every field too.
C40_ControlFrame ==
    [][(call'.op = "ctrl" /\ ~fault')
         => /\ (/\ call'.type = "EVP_CTRL_GCM_IV_GEN"
                /\ call'.arg \notin 1..GCM_NONCE_MAX_SZ)
                  => ret' = 0 /\ sess' = sess
            /\ call'.type = "EVP_CTRL_AEAD_GET_TAG"
                  => /\ sess' = sess
                     /\ ret' = IF sess.enc = 0 \/ call'.arg <= 0
                                  \/ call'.arg > sess.tagLen
                               THEN 0 ELSE 1
            /\ call'.type \notin Supported => ret' = 0 /\ sess' = sess
            /\ call'.type = "EVP_CTRL_GET_IVLEN" => sess' = sess]_vars

\* GetTag handed out the 16 bytes of the tag and the session still has them.
C40_Witness ==
    /\ CtrlCall("EVP_CTRL_AEAD_GET_TAG")
    /\ call.arg = AES_BLOCK_SIZE
    /\ ret = 1
    /\ out = sess.tag
    /\ sess.tagLen = AES_BLOCK_SIZE
============================================================================
